---- MODULE Spec2Model ----
(***************************************************************************)
(* Model of the combined text + audio generation flow of hr-button:        *)
(* the POST endpoint, CombinedService.generateTextWithAudio, the two       *)
(* pass-through services, GeminiClient, ElevenLabsClientWrapper and the    *)
(* error normalizer (ApiError / handleApiError).                           *)
(*                                                                         *)
(* JavaScript values are records with a "kind" field.  An optional string  *)
(* property that is not set is the string Absent; an optional object       *)
(* property that is not set is the record Undefined.                       *)
(***************************************************************************)
EXTENDS Integers, Sequences, FiniteSets, TLC

VARIABLES
    env,          \* process.env: which API keys are set
    mode,         \* "http": POST builds the default services; "direct": a caller injects services
    body,         \* what request.json() yields (or the CombinedRequest of a direct call)
    pc,           \* position of the request: "start", "await_text", "await_audio", "done"
    constructed,  \* the clients and services constructed so far
    textCalls,    \* requests passed to textService.generateText, in order
    audioCalls,   \* requests passed to audioService.generateAudio, in order
    geminiSent,   \* fetch calls sent to the text API, in order
    elevenSent,   \* textToSpeech.convert calls sent to the audio API, in order
    textOutcome,  \* settlement of textService.generateText
    audioOutcome, \* settlement of audioService.generateAudio
    outcome,      \* settlement of generateTextWithAudio
    response,     \* the HTTP response of POST
    errIn,        \* argument of a stand-alone handleApiError call
    errOut,       \* its return value
    textApiReply, \* what the text API answered to the fetch
    audioApiReply,\* what the audio API answered to the convert call
    templates,    \* the PROMPT_TEMPLATES table
    pbArg,        \* how the PromptBuilder was asked for: by template id or from a string
    builder,      \* settlement of the construction; its value is the builder
    buildOutcome, \* settlement of build()
    reqs,         \* two requests handled at the same time: the locals of each handler
    page          \* the state of the Home component and the handlers it has in flight

\* the state of the prompt builder
promptVars == <<templates, pbArg, builder, buildOutcome>>

\* the answers of the two remote APIs
replyVars == <<textApiReply, audioApiReply>>

vars == <<env, mode, body, pc, constructed, textCalls, audioCalls, geminiSent,
          elevenSent, textOutcome, audioOutcome, outcome, response, errIn, errOut,
          textApiReply, audioApiReply, templates, pbArg, builder, buildOutcome,
          reqs, page>>

-----------------------------------------------------------------------------
(* Bounds *)

\* longest chunk sequence streamed by the audio API
MaxChunks == 2

\* the most variables a caller sets on one builder
MaxVars == 2

-----------------------------------------------------------------------------
(* JavaScript values *)

Absent == "<undefined>"

Undefined == [kind |-> "undefined"]

Null == [kind |-> "null"]

\* a primitive string that was thrown
StringValue(s) == [kind |-> "string", value |-> s]

\* JS truthiness of an optional string
Truthy(s) == s # Absent /\ s # ""

\* new Error(message), or a subclass of Error other than ApiError
JsError(message) == [kind |-> "Error", message |-> message, code |-> Absent, circular |-> FALSE]

\* the TypeError of a property read on null or undefined
NullReadError == JsError("Cannot read properties of null")

\* the SyntaxError of a body that is not JSON
JsonSyntaxError == JsError("Unexpected token in JSON")

\* the TypeError of JSON.stringify on a cyclic structure
CircularError == JsError("Converting circular structure to JSON")

ApiError(data) ==
    [kind |-> "ApiError", code |-> data.code, message |-> data.message,
     statusCode |-> data.statusCode, details |-> data.details]

IsApiError(v) == v.kind = "ApiError"

\* v instanceof Error
IsError(v) == v.kind \in {"Error", "ApiError"}

toJSON(e) ==
    [code |-> e.code, message |-> e.message, statusCode |-> e.statusCode,
     details |-> e.details]

\* handleApiError answering 500 whatever the ApiError's own status is
handleApiError_Always500(error) ==
    IF IsApiError(error)
    THEN [status |-> 500, body |-> toJSON(error)]
    ELSE [status |-> 500,
          body |-> [code |-> "INTERNAL_ERROR",
                    message |-> IF IsError(error) THEN error.message ELSE "Unknown error",
                    statusCode |-> 500]]

\* handleApiError that does not extract the message of a plain Error
handleApiError_NoMessage(error) ==
    IF IsApiError(error)
    THEN [status |-> error.statusCode, body |-> toJSON(error)]
    ELSE [status |-> 500,
          body |-> [code |-> "INTERNAL_ERROR", message |-> "Unknown error",
                    statusCode |-> 500]]

handleApiError(error) ==
    IF IsApiError(error)
    THEN [status |-> error.statusCode, body |-> toJSON(error)]
    ELSE [status |-> 500,
          body |-> [code |-> "INTERNAL_ERROR",
                    message |-> IF IsError(error) THEN error.message ELSE "Unknown error",
                    statusCode |-> 500]]

-----------------------------------------------------------------------------
(* Settlements of calls and promises *)

Ok(v) == [state |-> "ok", value |-> v]

Thrown(v) == [state |-> "thrown", value |-> v]

Pending == [state |-> "pending"]

NotCalled == [state |-> "none"]

-----------------------------------------------------------------------------
(* lib/config *)

DEFAULT_GEMINI_MODEL == "gemini-2.0-flash-exp"

DEFAULT_VOICE == "JBFqnCBsd6RMkjVDRZzb"

DEFAULT_VOICE_SETTINGS ==
    [kind |-> "object", stability |-> "0.5", similarity_boost |-> "0.8",
     use_speaker_boost |-> TRUE]

-----------------------------------------------------------------------------
(* The text API as seen by fetch: what it can answer *)

HttpStatuses == {200, 401, 403, 429, 503}

GeminiErrorBodies ==
    {Undefined} \cup
    [kind : {"object"}, message : {Absent, "API key not valid"}]

GeminiUsage ==
    {Undefined,
     [kind |-> "object", promptTokenCount |-> 4, candidatesTokenCount |-> 7,
      totalTokenCount |-> 11]}

GeminiTexts == {Absent, "", "Take a short walk."}

\* what response.json() yields: a syntax error, JSON null, or a JSON object
GeminiData ==
    {[kind |-> "unparsable"], Null} \cup
    [kind : {"object"}, error : GeminiErrorBodies, text : GeminiTexts,
     usageMetadata : GeminiUsage]

\* fetch rejects (network failure) or resolves with an HTTP response
GeminiReplies ==
    {[kind |-> "network"]} \cup
    [kind : {"http"}, status : HttpStatuses, data : GeminiData]

\* response.ok
ResponseOk(status) == status >= 200 /\ status <= 299

-----------------------------------------------------------------------------
(* GeminiClient *)

createError(statusCode, data) ==
    IF data.kind = "null" THEN Thrown(NullReadError)
    ELSE LET code == IF statusCode = 401 \/ statusCode = 403 THEN "GEMINI_AUTH_ERROR"
                     ELSE IF statusCode = 429 THEN "GEMINI_RATE_LIMIT"
                     ELSE "GEMINI_API_ERROR"
             msg  == IF data.error = Undefined THEN Absent ELSE data.error.message
         IN  Ok(ApiError([code       |-> code,
                          message    |-> IF Truthy(msg) THEN msg
                                         ELSE "Gemini API error: " \o ToString(statusCode),
                          statusCode |-> statusCode,
                          details    |-> IF data.error # Undefined THEN data.error ELSE data]))

parseResponse(data, model) ==
    IF data.kind = "null" THEN Thrown(NullReadError)
    ELSE IF ~Truthy(data.text)
    THEN Thrown(ApiError([code |-> "GEMINI_NO_RESPONSE",
                          message |-> "No text generated in response",
                          statusCode |-> 500, details |-> Undefined]))
    ELSE Ok([text     |-> data.text,
             model    |-> model,
             usage    |-> IF data.usageMetadata # Undefined
                          THEN [promptTokens     |-> data.usageMetadata.promptTokenCount,
                                completionTokens |-> data.usageMetadata.candidatesTokenCount,
                                totalTokens      |-> data.usageMetadata.totalTokenCount]
                          ELSE Undefined,
             metadata |-> data])

\* the model id put in the URL
GeminiModelOf(request) ==
    IF Truthy(request.model) THEN request.model ELSE DEFAULT_GEMINI_MODEL

\* the try block of generateText, given the answer of the text API
GeminiTry(request, reply) ==
    IF reply.kind = "network" THEN Thrown(JsError("fetch failed"))
    ELSE IF reply.data.kind = "unparsable" THEN Thrown(JsonSyntaxError)
    ELSE IF ~ResponseOk(reply.status)
    THEN LET e == createError(reply.status, reply.data)
         IN  Thrown(e.value)
    ELSE parseResponse(reply.data, GeminiModelOf(request))

\* generateText without a catch clause
GeminiGenerateText_NoCatch(request, reply) == GeminiTry(request, reply)

\* generateText whose catch clause wraps whatever was thrown
GeminiGenerateText_RewrapsAll(request, reply) ==
    LET r == GeminiTry(request, reply)
    IN  IF r.state = "ok" THEN r
        ELSE Thrown(ApiError([code       |-> "GEMINI_REQUEST_FAILED",
                              message    |-> IF IsError(r.value) THEN r.value.message
                                             ELSE "Unknown error",
                              statusCode |-> 500,
                              details    |-> Undefined]))

\* GeminiClient.generateText: the try block, then the catch clause
GeminiGenerateText(request, reply) ==
    LET r == GeminiTry(request, reply)
    IN  IF r.state = "ok" THEN r
        ELSE IF IsApiError(r.value) THEN r
        ELSE Thrown(ApiError([code       |-> "GEMINI_REQUEST_FAILED",
                              message    |-> IF IsError(r.value) THEN r.value.message
                                             ELSE "Unknown error",
                              statusCode |-> 500,
                              details    |-> Undefined]))

\* TextGenerationService.generateText passes the request through
TextServiceGenerateText(request, reply) == GeminiGenerateText(request, reply)


-----------------------------------------------------------------------------
(* Buffer: byte sequences and their base64 text (a sequence of characters) *)

Bytes == 0..255

RECURSIVE BufferConcat(_)
\* Buffer.concat(chunks)
BufferConcat(chunks) ==
    IF chunks = <<>> THEN <<>> ELSE Head(chunks) \o BufferConcat(Tail(chunks))

Base64Alphabet ==
    <<"A", "B", "C", "D", "E", "F", "G", "H", "I", "J", "K", "L", "M", "N", "O", "P",
      "Q", "R", "S", "T", "U", "V", "W", "X", "Y", "Z", "a", "b", "c", "d", "e", "f",
      "g", "h", "i", "j", "k", "l", "m", "n", "o", "p", "q", "r", "s", "t", "u", "v",
      "w", "x", "y", "z", "0", "1", "2", "3", "4", "5", "6", "7", "8", "9", "+", "/">>

\* the URL-safe alphabet: "-" and "_" for the last two sextets
B64Char_UrlSafe(sextet) ==
    IF sextet = 62 THEN "-" ELSE IF sextet = 63 THEN "_" ELSE Base64Alphabet[sextet + 1]

B64Char(sextet) == Base64Alphabet[sextet + 1]

RECURSIVE Base64Encode(_)
\* buffer.toString("base64")
Base64Encode(bytes) ==
    IF Len(bytes) = 0 THEN <<>>
    ELSE IF Len(bytes) = 1
    THEN <<B64Char(bytes[1] \div 4), B64Char((bytes[1] % 4) * 16), "=", "=">>
    ELSE IF Len(bytes) = 2
    THEN <<B64Char(bytes[1] \div 4),
           B64Char((bytes[1] % 4) * 16 + bytes[2] \div 16),
           B64Char((bytes[2] % 16) * 4), "=">>
    ELSE <<B64Char(bytes[1] \div 4),
           B64Char((bytes[1] % 4) * 16 + bytes[2] \div 16),
           B64Char((bytes[2] % 16) * 4 + bytes[3] \div 64),
           B64Char(bytes[3] % 64)>>
         \o Base64Encode(SubSeq(bytes, 4, Len(bytes)))

\* the characters atob accepts, and the sextet each stands for
IsB64Char(c) == \E i \in 1..64 : Base64Alphabet[i] = c

B64Index(c) == (CHOOSE i \in 1..64 : Base64Alphabet[i] = c) - 1

\* atob drops one or two "=" at the end of a text whose length is a multiple of 4
StripPadding(data) ==
    IF Len(data) > 0 /\ Len(data) % 4 = 0 /\ data[Len(data)] = "="
    THEN IF data[Len(data) - 1] = "=" THEN SubSeq(data, 1, Len(data) - 2)
         ELSE SubSeq(data, 1, Len(data) - 1)
    ELSE data

RECURSIVE DecodeSextets(_)
\* four sextets give three character codes; two or three left over give one or two
DecodeSextets(x) ==
    IF Len(x) < 2 THEN <<>>
    ELSE IF Len(x) = 2 THEN <<x[1] * 4 + x[2] \div 16>>
    ELSE IF Len(x) = 3
    THEN <<x[1] * 4 + x[2] \div 16, (x[2] % 16) * 16 + x[3] \div 4>>
    ELSE <<x[1] * 4 + x[2] \div 16, (x[2] % 16) * 16 + x[3] \div 4, (x[3] % 4) * 64 + x[4]>>
         \o DecodeSextets(SubSeq(x, 5, Len(x)))

\* atob(data): the character codes of the binary string, or InvalidCharacterError
atob(data) ==
    LET stripped == StripPadding(data)
    IN  IF Len(stripped) % 4 = 1 \/ \E i \in 1..Len(stripped) : ~IsB64Char(stripped[i])
        THEN Thrown(JsError("InvalidCharacterError"))
        ELSE Ok(DecodeSextets([i \in 1..Len(stripped) |-> B64Index(stripped[i])]))

\* the page's decoding of responseData.audio.audioData into a Uint8Array
PageDecodeAudio(audioData) ==
    LET binaryString == atob(audioData)
    IN  IF binaryString.state = "thrown" THEN binaryString
        ELSE Ok([i \in 1..Len(binaryString.value) |-> binaryString.value[i] % 256])

-----------------------------------------------------------------------------
(* The audio API as seen through the vendor SDK: what it can answer *)

\* error.status of a vendor error that has none
NoStatus == 0

\* values the SDK call can throw: null, a primitive, or an error object that
\* may hold a cyclic reference (a response that points back to its request)
VendorErrors ==
    {Null, StringValue("socket hang up")} \cup
    [kind : {"object"}, status : {NoStatus, 401, 403, 429, 404},
     message : {Absent, "", "quota exceeded"}, code : {Absent},
     circular : BOOLEAN]

\* values the stream can fail with while chunks are read
StreamErrors ==
    {[kind |-> "object", status |-> NoStatus, message |-> "terminated",
      code |-> Absent, circular |-> FALSE],
     [kind |-> "object", status |-> 429, message |-> Absent,
      code |-> Absent, circular |-> TRUE]}

ChunkValues == {<<73, 68>>, <<255>>}

RECURSIVE SeqsUpTo(_, _)
SeqsUpTo(S, n) ==
    IF n = 0 THEN {<<>>}
    ELSE LET shorter == SeqsUpTo(S, n - 1)
         IN  shorter \cup {Append(q, x) : q \in shorter, x \in S}

ChunkSeqs == SeqsUpTo(ChunkValues, MaxChunks)

\* convert rejects, or resolves with a stream that delivers chunks and then
\* ends (error = Undefined) or fails
VendorReplies ==
    [kind : {"reject"}, error : VendorErrors] \cup
    [kind : {"stream"}, chunks : ChunkSeqs, error : {Undefined} \cup StreamErrors]

-----------------------------------------------------------------------------
(* ElevenLabsClientWrapper *)

defaultModelId == "eleven_v3"

defaultOutputFormat == "mp3_44100_128"

\* convert called with the default voice settings whatever the request holds
ConvertArgs_DefaultSettingsOnly(request) ==
    [voiceId       |-> IF Truthy(request.voiceId) THEN request.voiceId ELSE DEFAULT_VOICE,
     text          |-> request.text,
     modelId       |-> IF Truthy(request.modelId) THEN request.modelId ELSE defaultModelId,
     outputFormat  |-> IF Truthy(request.outputFormat) THEN request.outputFormat
                       ELSE defaultOutputFormat,
     voiceSettings |-> DEFAULT_VOICE_SETTINGS]

\* the arguments of client.textToSpeech.convert
ConvertArgs(request) ==
    [voiceId       |-> IF Truthy(request.voiceId) THEN request.voiceId ELSE DEFAULT_VOICE,
     text          |-> request.text,
     modelId       |-> IF Truthy(request.modelId) THEN request.modelId ELSE defaultModelId,
     outputFormat  |-> IF Truthy(request.outputFormat) THEN request.outputFormat
                       ELSE defaultOutputFormat,
     voiceSettings |-> IF request.voiceSettings # Undefined THEN request.voiceSettings
                       ELSE DEFAULT_VOICE_SETTINGS]

\* error.status and error.message of a caught value that is not null
StatusOf(error) == IF error.kind = "object" THEN error.status ELSE NoStatus

MessageOf(error) ==
    IF error.kind \in {"object", "Error", "ApiError"} THEN error.message ELSE Absent

\* the catch clause of generateAudio
ElevenLabsCatch(error) ==
    IF error.kind \in {"null", "undefined"} THEN Thrown(NullReadError)
    ELSE LET statusCode == IF StatusOf(error) # NoStatus THEN StatusOf(error) ELSE 500
             code == IF statusCode = 401 \/ statusCode = 403 THEN "ELEVENLABS_AUTH_ERROR"
                     ELSE IF statusCode = 429 THEN "ELEVENLABS_RATE_LIMIT"
                     ELSE "ELEVENLABS_API_ERROR"
         IN  Thrown(ApiError([code       |-> code,
                              message    |-> IF Truthy(MessageOf(error)) THEN MessageOf(error)
                                             ELSE "Eleven Labs API error",
                              statusCode |-> statusCode,
                              details    |-> error]))

\* generateAudio that reports the length of the base64 text as size
ElevenLabsGenerateAudio_Base64Size(request, reply) ==
    IF reply.kind = "reject" THEN ElevenLabsCatch(reply.error)
    ELSE IF reply.error # Undefined THEN ElevenLabsCatch(reply.error)
    ELSE LET audioBuffer == BufferConcat(reply.chunks)
         IN  Ok([audioData |-> Base64Encode(audioBuffer),
                 format    |-> IF Truthy(request.outputFormat) THEN request.outputFormat
                               ELSE defaultOutputFormat,
                 voiceId   |-> ConvertArgs(request).voiceId,
                 size      |-> Len(Base64Encode(audioBuffer))])

\* ElevenLabsClientWrapper.generateAudio, given the answer of the audio API
ElevenLabsGenerateAudio(request, reply) ==
    IF reply.kind = "reject" THEN ElevenLabsCatch(reply.error)
    ELSE IF reply.error # Undefined THEN ElevenLabsCatch(reply.error)
    ELSE LET audioBuffer == BufferConcat(reply.chunks)
         IN  Ok([audioData |-> Base64Encode(audioBuffer),
                 format    |-> IF Truthy(request.outputFormat) THEN request.outputFormat
                               ELSE defaultOutputFormat,
                 voiceId   |-> ConvertArgs(request).voiceId,
                 size      |-> Len(audioBuffer)])

\* AudioGenerationService.generateAudio passes the request through
AudioServiceGenerateAudio(request, reply) == ElevenLabsGenerateAudio(request, reply)


-----------------------------------------------------------------------------
(* Inbound requests *)

\* an optional boolean of a JSON body: not set, false or true
Flags == {Absent, "false", "true"}

FlagSet(f) == f = "true"

\* voice settings a caller sends in place of DEFAULT_VOICE_SETTINGS
CustomVoiceSettings ==
    [kind |-> "object", stability |-> "0.3", similarity_boost |-> "0.9",
     use_speaker_boost |-> FALSE]

\* Partial<AudioGenerationRequest>: a key that is not present is Absent
\* (Undefined for voiceSettings, which is an object)
AudioSettingsValues ==
    {Undefined} \cup
    [kind : {"object"}, text : {Absent, "Say this instead."},
     voiceId : {Absent, "EXAVITQu4vr4xnSDxMaL"}, modelId : {Absent, "eleven_multilingual_v2"},
     outputFormat : {Absent, "mp3_22050_32"},
     voiceSettings : {Undefined, CustomVoiceSettings}]

ObjectBodies ==
    [kind : {"object"}, prompt : {Absent, "", "Give me HR advice."},
     model : {Absent, "gemini-pro"}, generateAudio : Flags,
     voiceId : {Absent, "AZnzlk1XvdvUeBnXmlld"}, audioSettings : AudioSettingsValues]

\* what request.json() can yield in POST
Bodies == {[kind |-> "unparsable"], Null} \cup ObjectBodies

\* the CombinedRequest values a typed caller passes to generateTextWithAudio
CombinedRequests == {b \in ObjectBodies : b.prompt # Absent}

-----------------------------------------------------------------------------
(* Injected services: what a stand-in for a service can settle with *)

StubThrown ==
    {Null,
     StringValue("boom"),
     JsError(""),
     JsError("stub failed"),
     [kind |-> "Error", message |-> "read ECONNRESET", code |-> "ECONNRESET", circular |-> FALSE],
     [kind |-> "object", status |-> NoStatus, message |-> Absent, code |-> "E_STUB",
      circular |-> FALSE],
     [kind |-> "object", status |-> NoStatus, message |-> "cyclic", code |-> "E_STUB",
      circular |-> TRUE],
     [kind |-> "object", status |-> NoStatus, message |-> "no code", code |-> Absent,
      circular |-> TRUE],
     ApiError([code |-> "STUB_ERROR", message |-> "stub api error", statusCode |-> 418,
               details |-> Undefined])}

StubTextReplies ==
    {Ok([text |-> "Stub text.", model |-> "stub-model", usage |-> Undefined,
         metadata |-> Undefined])}
    \cup {Thrown(v) : v \in StubThrown}

StubAudioReplies ==
    {Ok([audioData |-> <<"/", "w", "=", "=">>, format |-> "mp3_44100_128",
         voiceId |-> DEFAULT_VOICE, size |-> 1])}
    \cup {Thrown(v) : v \in StubThrown}

\* values a catch clause can hand to handleApiError: what the clients throw,
\* what the vendor throws, and what a stand-in throws
CaughtValues ==
    StubThrown \cup VendorErrors
    \cup {GeminiGenerateText([prompt |-> "Give me HR advice.", model |-> Absent], r).value :
            r \in {x \in GeminiReplies :
                     GeminiGenerateText([prompt |-> "Give me HR advice.", model |-> Absent],
                                        x).state = "thrown"}}
    \cup {ElevenLabsCatch(v).value : v \in VendorErrors}
    \cup {JsonSyntaxError, CircularError,
          JsError("GEMINI_API_KEY is required"), JsError("ELEVENLABS_API_KEY is required")}

-----------------------------------------------------------------------------
(* JSON.stringify *)

RECURSIVE IsCircular(_)
\* the value holds a cyclic reference somewhere
IsCircular(v) ==
    IF v.kind \in {"object", "Error"} THEN v.circular
    ELSE IF v.kind = "ApiError" THEN IsCircular(v.details)
    ELSE FALSE

RECURSIVE JsonOf(_)
\* the serialized form: toJSON() of an ApiError, the enumerable own
\* properties of any other object
JsonOf(v) ==
    IF v.kind = "ApiError"
    THEN [code |-> v.code, message |-> v.message, statusCode |-> v.statusCode,
          details |-> JsonOf(v.details)]
    ELSE IF v.kind = "object"
    THEN [status |-> v.status, message |-> v.message, code |-> v.code]
    ELSE IF v.kind = "Error" THEN [code |-> v.code]
    ELSE v

\* JSON.stringify(v): a string, or a TypeError for a cyclic structure
JsonStringify(v) ==
    IF IsCircular(v) THEN Thrown(CircularError)
    ELSE Ok([kind |-> "string", json |-> JsonOf(v)])

-----------------------------------------------------------------------------
(* CombinedService *)

\* error && typeof error === "object" && "code" in error
HasCode(error) ==
    \/ error.kind = "ApiError"
    \/ error.kind \in {"object", "Error"} /\ error.code # Absent

\* { prompt: request.prompt, model: request.model }
TextRequest(request) == [prompt |-> request.prompt, model |-> request.model]

\* a key of the merged object: the overrides are spread last
Spread(settings, key, base) ==
    IF settings # Undefined /\ settings[key] # Absent THEN settings[key] ELSE base

\* { text: textResponse.text, voiceId: request.voiceId, ...request.audioSettings }
AudioRequest(request, textResponse) ==
    [text          |-> Spread(request.audioSettings, "text", textResponse.text),
     voiceId       |-> Spread(request.audioSettings, "voiceId", request.voiceId),
     modelId       |-> Spread(request.audioSettings, "modelId", Absent),
     outputFormat  |-> Spread(request.audioSettings, "outputFormat", Absent),
     voiceSettings |-> IF request.audioSettings # Undefined
                       THEN request.audioSettings.voiceSettings ELSE Undefined]

\* const result: CombinedResponse = { text: textResponse }
TextOnlyResult(textResponse) ==
    [text |-> textResponse, audio |-> Undefined, audioError |-> Absent,
     audioErrorDetails |-> Undefined]

\* a catch clause that also attaches an empty audio object
AudioCatch_PlaceholderAudio(result, error) ==
    LET errorMessage == IF IsError(error) THEN error.message ELSE "Audio generation failed"
        withError    == [result EXCEPT !.audioError = errorMessage,
                                       !.audio = [audioData |-> <<>>, format |-> "",
                                                  voiceId |-> "", size |-> 0]]
    IN  IF HasCode(error)
        THEN LET str == JsonStringify(error)
             IN  IF str.state = "thrown" THEN str
                 ELSE Ok([withError EXCEPT !.audioErrorDetails = str.value])
        ELSE Ok(withError)

\* the catch clause of the audio stage
AudioCatch(result, error) ==
    LET errorMessage == IF IsError(error) THEN error.message ELSE "Audio generation failed"
        withError    == [result EXCEPT !.audioError = errorMessage]
    IN  IF HasCode(error)
        THEN LET str == JsonStringify(error)
             IN  IF str.state = "thrown" THEN str
                 ELSE Ok([withError EXCEPT !.audioErrorDetails = str.value])
        ELSE Ok(withError)

\* generateTextWithAudio that goes on to the audio stage after a text failure
AfterText_AudioAfterFailure(request, t) ==
    IF FlagSet(request.generateAudio)
    THEN [step |-> "audio",
          audioRequest |-> AudioRequest(request, IF t.state = "ok" THEN t.value
                                                 ELSE [text |-> Absent])]
    ELSE IF t.state = "thrown" THEN [step |-> "settled", settled |-> t]
    ELSE [step |-> "settled", settled |-> Ok(TextOnlyResult(t.value))]

\* generateTextWithAudio that wraps a text failure instead of letting it pass
AfterText_WrapsTextError(request, t) ==
    IF t.state = "thrown"
    THEN [step |-> "settled",
          settled |-> Thrown(ApiError([code |-> "TEXT_GENERATION_FAILED",
                                       message |-> "Text generation failed",
                                       statusCode |-> 500, details |-> t.value]))]
    ELSE IF FlagSet(request.generateAudio)
    THEN [step |-> "audio", audioRequest |-> AudioRequest(request, t.value)]
    ELSE [step |-> "settled", settled |-> Ok(TextOnlyResult(t.value))]

\* generateTextWithAudio that skips audio only for generateAudio === false
AfterText_AudioByDefault(request, t) ==
    IF t.state = "thrown"
    THEN [step |-> "settled", settled |-> t]
    ELSE IF request.generateAudio # "false"
    THEN [step |-> "audio", audioRequest |-> AudioRequest(request, t.value)]
    ELSE [step |-> "settled", settled |-> Ok(TextOnlyResult(t.value))]

\* generateTextWithAudio from the settlement of the text call: it settles
\* (rejects with the text error, or resolves with the text alone) or goes on
\* to call the audio service
AfterText(request, t) ==
    IF t.state = "thrown"
    THEN [step |-> "settled", settled |-> t]
    ELSE IF FlagSet(request.generateAudio)
    THEN [step |-> "audio", audioRequest |-> AudioRequest(request, t.value)]
    ELSE [step |-> "settled", settled |-> Ok(TextOnlyResult(t.value))]

\* generateTextWithAudio from the settlement of the audio call to its own
AfterAudio(textResponse, audio) ==
    IF audio.state = "ok"
    THEN Ok([TextOnlyResult(textResponse) EXCEPT !.audio = audio.value])
    ELSE AudioCatch(TextOnlyResult(textResponse), audio.value)


-----------------------------------------------------------------------------
(* Constructors *)

\* a GeminiClient constructor that accepts a missing key
GeminiClientNew_NoCheck(e) == Ok({"GeminiClient"})

\* new GeminiClient(): the key comes from process.env
GeminiClientNew(e) ==
    IF e.gemini THEN Ok({"GeminiClient"})
    ELSE Thrown(JsError("GEMINI_API_KEY is required"))

\* new ElevenLabsClientWrapper(): the key comes from process.env
ElevenLabsClientWrapperNew(e) ==
    IF e.eleven THEN Ok({"ElevenLabsClientWrapper", "SDKClient"})
    ELSE Thrown(JsError("ELEVENLABS_API_KEY is required"))

\* new CombinedService() with no argument: the text service and its client
\* first, then the audio service and its client; value is the set of objects
\* whose constructor completed
CombinedServiceNew(e) ==
    LET g == GeminiClientNew(e)
        a == ElevenLabsClientWrapperNew(e)
    IN  IF g.state = "thrown" THEN [state |-> "thrown", value |-> g.value, built |-> {}]
        ELSE IF a.state = "thrown"
        THEN [state |-> "thrown", value |-> a.value,
              built |-> g.value \cup {"TextGenerationService"}]
        ELSE [state |-> "ok", value |-> Undefined,
              built |-> g.value \cup a.value \cup
                        {"TextGenerationService", "AudioGenerationService",
                         "CombinedService"}]

-----------------------------------------------------------------------------
(* The POST endpoint *)

NoResponse == [kind |-> "none"]

\* NextResponse.json(body, { status })
JsonResponse(b, status) == [kind |-> "response", status |-> status, body |-> b]

\* the catch clause of POST
PostCatch(error) ==
    LET r == handleApiError(error)
    IN  JsonResponse(r.body, r.status)

PromptRequired ==
    JsonResponse([code |-> "PROMPT_REQUIRED", message |-> "Prompt is required",
                  statusCode |-> 400], 400)

\* a POST without a catch clause: a rejection leaves the request unanswered
PostSettle_NoCatch(settled) ==
    IF settled.state = "ok" THEN JsonResponse(settled.value, 200)
    ELSE NoResponse

\* what POST answers once generateTextWithAudio has settled
PostSettle(settled) ==
    IF settled.state = "ok" THEN JsonResponse(settled.value, 200)
    ELSE PostCatch(settled.value)

\* POST that builds the service before it validates the prompt
PostEntry_ConstructsFirst(b, e) ==
    IF b.kind = "unparsable"
    THEN [response |-> PostCatch(JsonSyntaxError), built |-> {}, call |-> FALSE]
    ELSE LET service == CombinedServiceNew(e)
         IN  IF service.state = "thrown"
             THEN [response |-> PostCatch(service.value), built |-> service.built,
                   call |-> FALSE]
             ELSE IF b.kind = "null"
             THEN [response |-> PostCatch(NullReadError), built |-> service.built,
                   call |-> FALSE]
             ELSE IF ~Truthy(b.prompt)
             THEN [response |-> PromptRequired, built |-> service.built, call |-> FALSE]
             ELSE [response |-> NoResponse, built |-> service.built, call |-> TRUE]

\* POST from its entry to the call of generateTextWithAudio: the response if
\* it answers at once, the objects it constructed, and whether it calls
PostEntry(b, e) ==
    IF b.kind = "unparsable"
    THEN [response |-> PostCatch(JsonSyntaxError), built |-> {}, call |-> FALSE]
    ELSE IF b.kind = "null"
    THEN [response |-> PostCatch(NullReadError), built |-> {}, call |-> FALSE]
    ELSE IF ~Truthy(b.prompt)
    THEN [response |-> PromptRequired, built |-> {}, call |-> FALSE]
    ELSE LET service == CombinedServiceNew(e)
         IN  IF service.state = "thrown"
             THEN [response |-> PostCatch(service.value), built |-> service.built,
                   call |-> FALSE]
             ELSE [response |-> NoResponse, built |-> service.built, call |-> TRUE]

\* the response after generateTextWithAudio settled: POST's in http mode,
\* none for a direct caller
ResponseAfter(settled) ==
    IF mode = "http" THEN PostSettle(settled) ELSE NoResponse

-----------------------------------------------------------------------------
(* Prompt templates and PromptBuilder. A string that is searched or rewritten
   is the sequence of its characters. *)

\* the characters \w matches
WordChars ==
    {"A", "B", "C", "D", "E", "F", "G", "H", "I", "J", "K", "L", "M", "N", "O", "P",
     "Q", "R", "S", "T", "U", "V", "W", "X", "Y", "Z", "a", "b", "c", "d", "e", "f",
     "g", "h", "i", "j", "k", "l", "m", "n", "o", "p", "q", "r", "s", "t", "u", "v",
     "w", "x", "y", "z", "0", "1", "2", "3", "4", "5", "6", "7", "8", "9", "_"}

GREETING_TEXT ==
    <<"S", "a", "y", " ", "h", "e", "l", "l", "o", " ", "a", "n", "d", " ", "t", "e",
      "l", "l", " ", "m", "e", " ", "a", " ", "f", "u", "n", " ", "f", "a", "c", "t",
      " ", "a", "b", "o", "u", "t", " ", "{", "t", "o", "p", "i", "c", "}", " ", "i",
      "n", " ", "o", "n", "e", " ", "s", "e", "n", "t", "e", "n", "c", "e", ".">>

EXPLAIN_TEXT ==
    <<"E", "x", "p", "l", "a", "i", "n", " ", "{", "c", "o", "n", "c", "e", "p", "t",
      "}", " ", "i", "n", " ", "s", "i", "m", "p", "l", "e", " ", "t", "e", "r", "m",
      "s", " ", "s", "u", "i", "t", "a", "b", "l", "e", " ", "f", "o", "r", " ", "{",
      "a", "u", "d", "i", "e", "n", "c", "e", "}", ".">>

HR_ADVICE_TEXT ==
    <<"Y", "o", "u", "'", "r", "e", " ", "a", " ", "s", "e", "n", "i", "o", "r", " ",
      "H", "R", " ", "m", "a", "n", "a", "g", "e", "r", " ", "w", "h", "o", " ", "w",
      "o", "r", "k", "s", " ", "f", "o", "r", " ", "a", " ", "s", "m", "a", "l", "l",
      " ", "c", "o", "m", "p", "a", "n", "y", ".", " ", "\n", " ", " ", " ", " ", " ",
      " ", "S", "o", "m", "e", "o", "n", "e", " ", "h", "a", "s", " ", "d", "o", "n",
      "e", " ", "s", "o", "m", "e", "t", "h", "i", "n", "g", " ", "w", "r", "o", "n",
      "g", " ", "d", "u", "r", "i", "n", "g", " ", "a", " ", "c", "a", "s", "u", "a",
      "l", " ", "o", "f", "f", "i", "c", "e", " ", "c", "o", "n", "v", "e", "r", "s",
      "a", "t", "i", "o", "n", ".", " ", "\n", " ", " ", " ", " ", " ", " ", "G", "i",
      "v", "e", " ", "d", "i", "m", "i", "n", "u", "t", "i", "v", "e", " ", "a", "d",
      "v", "i", "c", "e", " ", "a", "s", " ", "t", "h", "o", "u", "g", "h", " ", "y",
      "o", "u", "'", "r", "e", " ", "t", "a", "l", "k", "i", "n", "g", " ", "t", "o",
      " ", "t", "h", "e", "m", " ", "i", "n", " ", "p", "e", "r", "s", "o", "n", ".",
      " ", "\n", " ", " ", " ", " ", " ", " ", "M", "a", "k", "e", " ", "l", "i", "b",
      "e", "r", "a", "l", " ", "u", "s", "e", " ", "o", "f", " ", "s", "a", "r", "c",
      "a", "s", "m", " ", "a", "n", "d", " ", "w", "i", "t", "t", "y", " ", "r", "e",
      "m", "a", "r", "k", "s", ".", " ", "\n", " ", " ", " ", " ", " ", " ", "I", "M",
      "P", "O", "R", "T", "A", "N", "T", ":", " ", "B", "e", " ", "v", "e", "r", "y",
      " ", "c", "o", "n", "c", "i", "s", "e", " ", "a", "n", "d", " ", "t", "o", " ",
      "t", "h", "e", " ", "p", "o", "i", "n", "t", ".">>

\* the table, by key
PROMPT_TEMPLATES ==
    [GREETING  |-> [kind |-> "template", id |-> "greeting", name |-> "Greeting",
                    template |-> GREETING_TEXT, variables |-> <<"topic">>],
     EXPLAIN   |-> [kind |-> "template", id |-> "explain", name |-> "Explanation",
                    template |-> EXPLAIN_TEXT, variables |-> <<"concept", "audience">>],
     HR_ADVICE |-> [kind |-> "template", id |-> "hr-advice", name |-> "HR Advice",
                    template |-> HR_ADVICE_TEXT, variables |-> Undefined]]

\* members every plain object inherits from Object.prototype
ObjectPrototypeKeys == {"constructor", "toString", "valueOf", "hasOwnProperty"}

\* getPromptTemplate(id): the property read table[id] on a plain object
getPromptTemplate(table, id) ==
    IF id \in DOMAIN table THEN table[id]
    ELSE IF id \in ObjectPrototypeKeys THEN [kind |-> "function", name |-> id]
    ELSE Undefined

\* new PromptBuilder(templateId)
PromptBuilderNew(table, templateId) ==
    LET template == getPromptTemplate(table, templateId)
    IN  IF template = Undefined
        THEN Thrown(JsError("Template " \o templateId \o " not found"))
        ELSE Ok([template |-> template, variables |-> <<>>])

\* a fromString whose builder starts with a variable already set
fromString_PresetVariable(text) ==
    Ok([template  |-> [kind |-> "template", id |-> "custom", name |-> "Custom",
                       template |-> text, variables |-> Undefined],
        variables |-> <<[name |-> "x", value |-> <<"A", "I">>]>>])

\* PromptBuilder.fromString(text)
fromString(text) ==
    Ok([template  |-> [kind |-> "template", id |-> "custom", name |-> "Custom",
                       template |-> text, variables |-> Undefined],
        variables |-> <<>>])

\* Map.set: a key that is present keeps its place, a new key goes last
MapSet(map, name, value) ==
    IF \E i \in 1..Len(map) : map[i].name = name
    THEN [i \in 1..Len(map) |-> IF map[i].name = name
                                THEN [name |-> name, value |-> value] ELSE map[i]]
    ELSE Append(map, [name |-> name, value |-> value])

\* setVariable(name, value)
setVariable(b, name, value) == [b EXCEPT !.variables = MapSet(b.variables, name, value)]

RECURSIVE setVariables(_, _)
\* setVariables(vars): Object.entries in order, each entry set
setVariables(b, entries) ==
    IF entries = <<>> THEN b
    ELSE setVariables(setVariable(b, Head(entries).name, Head(entries).value), Tail(entries))

\* pat occurs in s at position i
OccursAt(s, pat, i) ==
    i + Len(pat) - 1 <= Len(s) /\ SubSeq(s, i, i + Len(pat) - 1) = pat

RECURSIVE ExpandReplacement(_, _)
\* the replacement text of String.prototype.replace: $$ stands for a dollar
\* sign and $& for the matched text
ExpandReplacement(repl, matched) ==
    IF repl = <<>> THEN <<>>
    ELSE IF Head(repl) = "$" /\ Len(repl) >= 2 /\ repl[2] \in {"$", "&"}
    THEN (IF repl[2] = "$" THEN <<"$">> ELSE matched)
         \o ExpandReplacement(SubSeq(repl, 3, Len(repl)), matched)
    ELSE <<Head(repl)>> \o ExpandReplacement(Tail(repl), matched)

\* s.replace(pat, repl) with a string pattern: the first occurrence only
JsReplace(s, pat, repl) ==
    IF \E i \in 1..(Len(s) + 1) : OccursAt(s, pat, i)
    THEN LET i      == CHOOSE k \in 1..(Len(s) + 1) :
                           /\ OccursAt(s, pat, k)
                           /\ \A m \in 1..(k - 1) : ~OccursAt(s, pat, m)
             before == SubSeq(s, 1, i - 1)
             after  == SubSeq(s, i + Len(pat), Len(s))
         IN  before \o ExpandReplacement(repl, pat) \o after
    ELSE s

\* the names a caller sets, with their characters
NameChars ==
    [x        |-> <<"x">>,
     topic    |-> <<"t", "o", "p", "i", "c">>,
     concept  |-> <<"c", "o", "n", "c", "e", "p", "t">>,
     audience |-> <<"a", "u", "d", "i", "e", "n", "c", "e">>]

\* the pattern of the replace: the key between braces
PlaceholderOf(key) == <<"{">> \o NameChars[key] \o <<"}">>

RECURSIVE WordEnd(_, _)
\* the first position from i on that holds no word character
WordEnd(s, i) ==
    IF i > Len(s) \/ s[i] \notin WordChars THEN i ELSE WordEnd(s, i + 1)

\* /{(\w+)}/ matches at position i; the match ends at WordEnd(s, i + 1)
TokenAt(s, i) ==
    /\ s[i] = "{"
    /\ WordEnd(s, i + 1) > i + 1
    /\ WordEnd(s, i + 1) <= Len(s)
    /\ s[WordEnd(s, i + 1)] = "}"

RECURSIVE MatchAll(_, _)
\* prompt.match(/{(\w+)}/g) from position i on: the matches, left to right
MatchAll(s, i) ==
    LET starts == {k \in i..Len(s) : TokenAt(s, k)}
    IN  IF starts = {} THEN <<>>
        ELSE LET k == CHOOSE x \in starts : \A y \in starts : x <= y
             IN  <<SubSeq(s, k, WordEnd(s, k + 1))>> \o MatchAll(s, WordEnd(s, k + 1) + 1)

RECURSIVE StringOf(_)
\* the string of a sequence of characters
StringOf(cs) == IF cs = <<>> THEN "" ELSE Head(cs) \o StringOf(Tail(cs))

RECURSIVE Join(_, _)
\* missingVars.join(sep)
Join(items, sep) ==
    IF items = <<>> THEN ""
    ELSE IF Len(items) = 1 THEN StringOf(items[1])
    ELSE StringOf(items[1]) \o sep \o Join(Tail(items), sep)

RECURSIVE ReplaceEach(_, _)
\* this.variables.forEach: one replace per entry, in insertion order
ReplaceEach(prompt, variables) ==
    IF variables = <<>> THEN prompt
    ELSE ReplaceEach(JsReplace(prompt, PlaceholderOf(Head(variables).name),
                               Head(variables).value),
                     Tail(variables))

\* build() that returns the prompt without looking for placeholders left
build_NoValidation(b) ==
    IF b.template.kind # "template" THEN Thrown(NullReadError)
    ELSE Ok(ReplaceEach(b.template.template, b.variables))

\* build()
build(b) ==
    IF b.template.kind # "template" THEN Thrown(NullReadError)
    ELSE LET prompt      == ReplaceEach(b.template.template, b.variables)
             missingVars == MatchAll(prompt, 1)
         IN  IF missingVars # <<>>
             THEN Thrown(JsError("Missing variables: " \o Join(missingVars, ", ")))
             ELSE Ok(prompt)

\* what callers ask a builder for
TemplateIds ==
    {"GREETING", "EXPLAIN", "HR_ADVICE", "greeting", "hr-advice", "UNKNOWN",
     "toString", "constructor"}

TemplateTexts ==
    {<<>>,
     <<"H", "i", ".">>,
     <<"{", "x", "}">>,
     <<"{", "x", "}", " ", "{", "x", "}">>,
     <<"{", "x", "}", " ", "a", "n", "d", " ", "{", "t", "o", "p", "i", "c", "}">>,
     <<"{", "x", " ", "y", "}">>}

VariableNames == DOMAIN NameChars

VariableValues ==
    {<<"A", "I">>,
     <<"{", "x", "}">>,
     <<"$", "&">>}

\* the objects a caller passes to setVariables
VariableRecords ==
    {<<[name |-> "concept", value |-> <<"A", "I">>],
       [name |-> "audience", value |-> <<"k", "i", "d", "s">>]>>,
     <<[name |-> "x", value |-> <<"A", "I">>]>>}

-----------------------------------------------------------------------------
(* Two requests handled at the same time. Each call of POST has its own body,
   its own CombinedService and clients, and its own locals; the handlers
   interleave at their awaits. *)

Requests == {"A", "B"}

\* the bodies of the two requests
PairBodies ==
    {b \in ObjectBodies :
        /\ b.model = Absent
        /\ b.audioSettings = Undefined
        /\ b.prompt # ""
        /\ b.generateAudio # "false"
        /\ b.prompt = Absent => b.generateAudio = Absent
        /\ b.generateAudio = Absent => b.voiceId = Absent}

\* what the text API answers to either request
PairTextReplies ==
    {[kind |-> "network"],
     [kind |-> "http", status |-> 429,
      data |-> [kind |-> "object", error |-> [kind |-> "object", message |-> Absent],
                text |-> Absent, usageMetadata |-> Undefined]]}
    \cup {[kind |-> "http", status |-> 200,
           data |-> [kind |-> "object", error |-> Undefined, text |-> t,
                     usageMetadata |-> Undefined]] :
            t \in {"Take a short walk.", "Send flowers."}}

\* what the audio API answers to either request
PairAudioReplies ==
    {r \in VendorReplies :
        \/ r.kind = "reject" /\ r.error.kind = "object" /\ r.error.status = 429
                             /\ r.error.message = "quota exceeded"
        \/ r.kind = "stream" /\ r.error = Undefined /\ Len(r.chunks) = 1}

\* the locals of a handler whose request has just arrived
Arrived(b) ==
    [body |-> b, pc |-> "start", textReply |-> Undefined, audioReply |-> Undefined,
     textOutcome |-> NotCalled, audioRequest |-> Undefined, audioOutcome |-> NotCalled,
     response |-> NoResponse]

\* a textResponse kept in one place for all requests: the last one to arrive
TextResponseOf_Shared(rs, i) ==
    IF \E j \in Requests \ {i} : rs[j].textOutcome.state = "ok"
    THEN rs[CHOOSE j \in Requests \ {i} : rs[j].textOutcome.state = "ok"].textOutcome.value
    ELSE rs[i].textOutcome.value

\* const textResponse of the handler of request i
TextResponseOf(rs, i) == rs[i].textOutcome.value

\* the handler from the arrival of the request to its first await or its response
PairEntered(q, e) ==
    LET entry == PostEntry(q.body, e)
    IN  IF entry.call THEN [q EXCEPT !.pc = "await_text", !.textOutcome = Pending]
        ELSE [q EXCEPT !.pc = "done", !.response = entry.response]

\* the handler from the answer of the text API to its next await or its response
PairTextSettled(q, reply) ==
    LET t     == TextServiceGenerateText(TextRequest(q.body), reply)
        after == AfterText(q.body, t)
        told  == [q EXCEPT !.textReply = reply, !.textOutcome = t]
    IN  IF after.step = "audio"
        THEN [told EXCEPT !.pc = "await_audio", !.audioRequest = after.audioRequest,
                          !.audioOutcome = Pending]
        ELSE [told EXCEPT !.pc = "done", !.response = PostSettle(after.settled)]

\* the handler from the answer of the audio API to its response
PairAudioSettled(rs, i, reply) ==
    LET a == AudioServiceGenerateAudio(rs[i].audioRequest, reply)
    IN  [rs[i] EXCEPT !.audioReply = reply, !.audioOutcome = a, !.pc = "done",
                      !.response = PostSettle(AfterAudio(TextResponseOf(rs, i), a))]

-----------------------------------------------------------------------------
(* The page: the state of the Home component, and the calls of
   handleButtonClick that are waiting at an await *)

\* the state hooks of Home after the first render
InitialPage ==
    [loading |-> FALSE, audioLoading |-> FALSE, response |-> Null, error |-> "",
     generateAudio |-> FALSE, audioUrl |-> Null, isPlaying |-> FALSE,
     audioError |-> Null, handlers |-> <<>>]

\* a response body the page may read: what res.json() gives
PageData(message, code, text, audio, audioError, audioErrorDetails) ==
    [kind |-> "object", message |-> message, code |-> code, text |-> text,
     audio |-> audio, audioError |-> audioError, audioErrorDetails |-> audioErrorDetails]

\* the text of a successful reply
PageText == [kind |-> "object", text |-> "Take a short walk.", model |-> "gemini-2.5-flash"]

\* the audio of a successful reply
PageAudio(audioData) == [kind |-> "object", audioData |-> audioData, format |-> "mp3_44100_128"]

\* how fetch("/api/call-api") can settle: it rejects, or it resolves with a
\* reply whose body is not JSON, is JSON null, or is a JSON object
PageReplies ==
    {[kind |-> "reject"],
     [kind |-> "http", ok |-> FALSE, status |-> 502, data |-> [kind |-> "unparsable"]],
     [kind |-> "http", ok |-> FALSE, status |-> 500, data |-> Null],
     [kind |-> "http", ok |-> TRUE, status |-> 200, data |-> Null],
     [kind |-> "http", ok |-> FALSE, status |-> 500,
      data |-> PageData("Text generation failed", "TEXT_ERROR", Undefined, Undefined,
                        Absent, Absent)],
     [kind |-> "http", ok |-> FALSE, status |-> 400,
      data |-> PageData(Absent, "INVALID_REQUEST", Undefined, Undefined, Absent, Absent)],
     [kind |-> "http", ok |-> FALSE, status |-> 404,
      data |-> PageData(Absent, Absent, Undefined, Undefined, Absent, Absent)],
     [kind |-> "http", ok |-> TRUE, status |-> 200,
      data |-> PageData(Absent, Absent, PageText, Undefined, Absent, Absent)],
     [kind |-> "http", ok |-> TRUE, status |-> 200,
      data |-> PageData(Absent, Absent, PageText, PageAudio(<<"/", "0", "l", "E">>),
                        Absent, Absent)],
     [kind |-> "http", ok |-> TRUE, status |-> 200,
      data |-> PageData(Absent, Absent, PageText, PageAudio(<<"/", "0", "l", "E", "*">>),
                        Absent, Absent)],
     [kind |-> "http", ok |-> TRUE, status |-> 200,
      data |-> PageData(Absent, Absent, PageText, Undefined, "Audio generation failed",
                        Absent)],
     [kind |-> "http", ok |-> TRUE, status |-> 200,
      data |-> PageData(Absent, Absent, PageText, Undefined, "Audio generation failed",
                        "quota exceeded")]}

\* a button and a checkbox that are never disabled
ControlsEnabled_Always(p) == TRUE

\* disabled={loading} on the checkbox and on the button
ControlsEnabled(p) == ~p.loading

\* the sequence without its i-th element
RemoveAt(seq, i) == SubSeq(seq, 1, i - 1) \o SubSeq(seq, i + 1, Len(seq))

\* a call of handleButtonClick leaves through finally
PageFinally(p, i) ==
    [p EXCEPT !.loading = FALSE, !.audioLoading = FALSE, !.handlers = RemoveAt(p.handlers, i)]

\* catch (err): setError(err instanceof Error ? err.message : "Unknown error")
PageCatch(p, err) ==
    [p EXCEPT !.error = IF IsError(err) THEN err.message ELSE "Unknown error"]

\* handleButtonClick from the click to its first await, or to its end when
\* the prompt cannot be built
PageClicked(p, table) ==
    LET cleared == [p EXCEPT !.loading = TRUE, !.audioLoading = p.generateAudio,
                             !.error = "", !.response = Null, !.audioError = Null,
                             !.audioUrl = Null, !.isPlaying = FALSE]
        made    == PromptBuilderNew(table, "HR_ADVICE")
        prompt  == IF made.state = "ok" THEN build(made.value) ELSE made
    IN  IF prompt.state = "thrown"
        THEN [PageCatch(cleared, prompt.value) EXCEPT !.loading = FALSE,
                                                      !.audioLoading = FALSE]
        ELSE [cleared EXCEPT !.handlers =
                  Append(p.handlers,
                         [generateAudio |-> p.generateAudio, stage |-> "fetch",
                          request |-> [prompt |-> prompt.value,
                                       generateAudio |-> p.generateAudio],
                          res |-> Undefined])]

\* the call continues after await fetch(...)
PageFetched(p, i, reply) ==
    IF reply.kind = "reject" THEN PageFinally(PageCatch(p, JsError("Failed to fetch")), i)
    ELSE [p EXCEPT !.handlers[i].stage = "json", !.handlers[i].res = reply]

\* the audio branch of a successful reply
PageAudioHandled(p, generateAudio, data) ==
    IF generateAudio /\ data.audio # Undefined
    THEN LET bytes == PageDecodeAudio(data.audio.audioData)
         IN  IF bytes.state = "ok"
             THEN [p EXCEPT !.audioUrl = [kind |-> "blob", bytes |-> bytes.value]]
             ELSE [p EXCEPT !.audioError = StringValue("Failed to process audio data")]
    ELSE IF generateAudio /\ Truthy(data.audioError)
    THEN [p EXCEPT !.audioError =
              StringValue(IF Truthy(data.audioErrorDetails)
                          THEN data.audioError \o " - " \o data.audioErrorDetails
                          ELSE data.audioError)]
    ELSE p

\* the call continues after await res.json()
PageParsed(p, i) ==
    LET h    == p.handlers[i]
        res  == h.res
        data == res.data
    IN  IF data.kind = "unparsable"
        THEN PageFinally(PageCatch(p, JsError("Unexpected token < in JSON")), i)
        ELSE IF ~res.ok
        THEN IF data = Null THEN PageFinally(PageCatch(p, NullReadError), i)
             ELSE PageFinally([p EXCEPT !.error =
                                  IF Truthy(data.message) THEN data.message
                                  ELSE IF Truthy(data.code) THEN data.code
                                  ELSE "Error: " \o ToString(res.status)], i)
        ELSE IF data = Null
        THEN IF h.generateAudio THEN PageFinally(PageCatch(p, NullReadError), i)
             ELSE PageFinally(p, i)
        ELSE PageFinally(PageAudioHandled([p EXCEPT !.response = data],
                                          h.generateAudio, data), i)

-----------------------------------------------------------------------------
(* State machine *)

Init ==
    /\ mode \in {"http", "direct", "normalize", "prompt", "pair", "page"}
    /\ env \in IF mode \in {"prompt", "page"} THEN {[gemini |-> TRUE, eleven |-> TRUE]}
               ELSE [gemini : BOOLEAN, eleven : BOOLEAN]
    /\ body \in IF mode = "http" THEN Bodies
                ELSE IF mode = "direct" THEN CombinedRequests
                ELSE {Undefined}
    /\ pc = "start"
    /\ constructed = {}
    /\ textCalls = <<>>
    /\ audioCalls = <<>>
    /\ geminiSent = <<>>
    /\ elevenSent = <<>>
    /\ textOutcome = NotCalled
    /\ audioOutcome = NotCalled
    /\ outcome = NotCalled
    /\ response = NoResponse
    /\ errIn \in IF mode = "normalize" THEN CaughtValues ELSE {Undefined}
    /\ errOut = Undefined
    /\ textApiReply = Undefined
    /\ audioApiReply = Undefined
    /\ templates = PROMPT_TEMPLATES
    /\ pbArg = Undefined
    /\ builder = NotCalled
    /\ buildOutcome = NotCalled
    /\ reqs \in IF mode = "pair" THEN [Requests -> {Arrived(b) : b \in PairBodies}]
                ELSE {<<>>}
    /\ page = IF mode = "page" THEN InitialPage ELSE Undefined

\* generateTextWithAudio up to its first await: the text service is called
CallTextService ==
    /\ textCalls' = Append(textCalls, TextRequest(body))
    /\ textOutcome' = Pending
    /\ outcome' = Pending
    /\ pc' = "await_text"

\* POST from its entry to the first remote call, or to its response
PostRequest ==
    /\ mode = "http"
    /\ pc = "start"
    /\ LET entry == PostEntry(body, env)
       IN  /\ constructed' = entry.built
           /\ response' = entry.response
           /\ IF entry.call
              THEN /\ CallTextService
                   /\ geminiSent' = Append(geminiSent,
                                           [model  |-> GeminiModelOf(TextRequest(body)),
                                            prompt |-> body.prompt,
                                            key    |-> env.gemini])
              ELSE /\ pc' = "done"
                   /\ UNCHANGED <<textCalls, geminiSent, textOutcome, outcome>>
    /\ UNCHANGED <<env, mode, body, audioCalls, elevenSent, audioOutcome, errIn, errOut>>
    /\ UNCHANGED <<replyVars, promptVars, reqs, page>>

\* a caller that injects its own services calls generateTextWithAudio
DirectCall ==
    /\ mode = "direct"
    /\ pc = "start"
    /\ CallTextService
    /\ constructed' = {"CombinedService"}
    /\ UNCHANGED <<env, mode, body, audioCalls, geminiSent, elevenSent, audioOutcome,
                   response, errIn, errOut, replyVars, promptVars, reqs, page>>

\* generateTextWithAudio from the settlement t of the text call to its next
\* await or to its own settlement
TextSettled(t) ==
    LET after == AfterText(body, t)
    IN  /\ textOutcome' = t
        /\ IF after.step = "audio"
           THEN /\ audioCalls' = Append(audioCalls, after.audioRequest)
                /\ elevenSent' = IF mode = "http"
                                 THEN Append(elevenSent, ConvertArgs(after.audioRequest))
                                 ELSE elevenSent
                /\ audioOutcome' = Pending
                /\ pc' = "await_audio"
                /\ UNCHANGED <<outcome, response>>
           ELSE /\ outcome' = after.settled
                /\ response' = ResponseAfter(after.settled)
                /\ pc' = "done"
                /\ UNCHANGED <<audioCalls, elevenSent, audioOutcome>>
        /\ UNCHANGED <<env, mode, body, constructed, textCalls, geminiSent, errIn, errOut,
                       audioApiReply, promptVars, reqs, page>>

\* the text API answers the fetch of GeminiClient.generateText
GeminiReply ==
    /\ mode = "http"
    /\ pc = "await_text"
    /\ \E reply \in GeminiReplies :
          /\ textApiReply' = reply
          /\ TextSettled(TextServiceGenerateText(textCalls[Len(textCalls)], reply))

\* an injected text service settles
TextStubReply ==
    /\ mode = "direct"
    /\ pc = "await_text"
    /\ \E t \in StubTextReplies : TextSettled(t)
    /\ UNCHANGED textApiReply

\* generateTextWithAudio from the settlement a of the audio call to its own
AudioSettled(a) ==
    LET settled == AfterAudio(textOutcome.value, a)
    IN  /\ audioOutcome' = a
        /\ outcome' = settled
        /\ response' = ResponseAfter(settled)
        /\ pc' = "done"
        /\ UNCHANGED <<env, mode, body, constructed, textCalls, audioCalls, geminiSent,
                       elevenSent, textOutcome, errIn, errOut, textApiReply, promptVars, reqs, page>>

\* the audio API answers the call of ElevenLabsClientWrapper.generateAudio
ElevenLabsReply ==
    /\ mode = "http"
    /\ pc = "await_audio"
    /\ \E reply \in VendorReplies :
          /\ audioApiReply' = reply
          /\ AudioSettled(AudioServiceGenerateAudio(audioCalls[Len(audioCalls)], reply))

\* an injected audio service settles
AudioStubReply ==
    /\ mode = "direct"
    /\ pc = "await_audio"
    /\ \E a \in StubAudioReplies : AudioSettled(a)
    /\ UNCHANGED audioApiReply

\* a caller passes a value it caught to handleApiError
NormalizeError ==
    /\ mode = "normalize"
    /\ pc = "start"
    /\ errOut' = handleApiError(errIn)
    /\ pc' = "done"
    /\ UNCHANGED <<env, mode, body, constructed, textCalls, audioCalls, geminiSent,
                   elevenSent, textOutcome, audioOutcome, outcome, response, errIn,
                   replyVars, promptVars, reqs, page>>

\* everything but the prompt builder
serviceVars ==
    <<env, mode, body, constructed, textCalls, audioCalls, geminiSent, elevenSent,
      textOutcome, audioOutcome, outcome, response, errIn, errOut, replyVars>>

\* the builder once its construction settled
Constructed(arg, b) ==
    /\ pbArg' = arg
    /\ builder' = b
    /\ pc' = IF b.state = "thrown" THEN "done" ELSE "builder"
    /\ UNCHANGED <<serviceVars, reqs, page, templates, buildOutcome>>

\* new PromptBuilder(templateId)
NewPromptBuilder ==
    /\ mode = "prompt"
    /\ pc = "start"
    /\ \E templateId \in TemplateIds :
          Constructed([kind |-> "id", id |-> templateId],
                      PromptBuilderNew(templates, templateId))

\* PromptBuilder.fromString(text)
FromString ==
    /\ mode = "prompt"
    /\ pc = "start"
    /\ \E text \in TemplateTexts :
          Constructed([kind |-> "text", text |-> text], fromString(text))

\* the builder after a call that sets variables
VariablesSet(b) ==
    /\ Len(b.variables) <= MaxVars
    /\ builder' = Ok(b)
    /\ UNCHANGED <<serviceVars, reqs, page, pc, templates, pbArg, buildOutcome>>

\* builder.setVariable(name, value)
SetVariable ==
    /\ mode = "prompt"
    /\ pc = "builder"
    /\ \E name \in VariableNames, value \in VariableValues :
          VariablesSet(setVariable(builder.value, name, value))

\* builder.setVariables(vars)
SetVariables ==
    /\ mode = "prompt"
    /\ pc = "builder"
    /\ \E entries \in VariableRecords :
          VariablesSet(setVariables(builder.value, entries))

\* builder.build()
Build ==
    /\ mode = "prompt"
    /\ pc = "builder"
    /\ buildOutcome' = build(builder.value)
    /\ pc' = "done"
    /\ UNCHANGED <<serviceVars, reqs, page, templates, pbArg, builder>>

\* one of the two requests takes a step; nothing else changes
PairStep(i, q) ==
    /\ reqs' = [reqs EXCEPT ![i] = q]
    /\ UNCHANGED <<serviceVars, pc, promptVars, page>>

\* POST starts on one of the two requests
PairPost ==
    /\ mode = "pair"
    /\ \E i \in Requests :
          /\ reqs[i].pc = "start"
          /\ PairStep(i, PairEntered(reqs[i], env))

\* the text API answers one of the two requests
PairGeminiReply ==
    /\ mode = "pair"
    /\ \E i \in Requests, reply \in PairTextReplies :
          /\ reqs[i].pc = "await_text"
          /\ PairStep(i, PairTextSettled(reqs[i], reply))

\* the audio API answers one of the two requests
PairElevenLabsReply ==
    /\ mode = "pair"
    /\ \E i \in Requests, reply \in PairAudioReplies :
          /\ reqs[i].pc = "await_audio"
          /\ PairStep(i, PairAudioSettled(reqs, i, reply))

\* a step of the page; nothing else changes
PageStep(p) ==
    /\ page' = p
    /\ UNCHANGED <<serviceVars, pc, promptVars, reqs>>

\* onChange of the checkbox
ToggleCheckbox ==
    /\ mode = "page"
    /\ ControlsEnabled(page)
    /\ PageStep([page EXCEPT !.generateAudio = ~page.generateAudio])

\* onClick of the button
ButtonClick ==
    /\ mode = "page"
    /\ ControlsEnabled(page)
    /\ PageStep(PageClicked(page, templates))

\* the play, pause and ended events of the audio element
AudioEvent ==
    /\ mode = "page"
    /\ page.audioUrl # Null
    /\ \E playing \in BOOLEAN : PageStep([page EXCEPT !.isPlaying = playing])

\* fetch settles for a call that waits for it
PageFetchSettled ==
    /\ mode = "page"
    /\ \E i \in 1..Len(page.handlers), reply \in PageReplies :
          /\ page.handlers[i].stage = "fetch"
          /\ PageStep(PageFetched(page, i, reply))

\* res.json() settles for a call that waits for it
PageJsonSettled ==
    /\ mode = "page"
    /\ \E i \in 1..Len(page.handlers) :
          /\ page.handlers[i].stage = "json"
          /\ PageStep(PageParsed(page, i))

Next ==
    \/ PostRequest
    \/ DirectCall
    \/ GeminiReply
    \/ TextStubReply
    \/ ElevenLabsReply
    \/ AudioStubReply
    \/ NormalizeError
    \/ NewPromptBuilder
    \/ FromString
    \/ SetVariable
    \/ SetVariables
    \/ Build
    \/ PairPost
    \/ PairGeminiReply
    \/ PairElevenLabsReply
    \/ ToggleCheckbox
    \/ ButtonClick
    \/ AudioEvent
    \/ PageFetchSettled
    \/ PageJsonSettled

Spec == Init /\ [][Next]_vars

\* the runtime runs the handler of a request that arrived, and every remote
\* call that was made is answered in the end, with a reply or with a failure
LiveSpec ==
    /\ Spec
    /\ WF_vars(PostRequest)
    /\ WF_vars(GeminiReply)
    /\ WF_vars(ElevenLabsReply)


-----------------------------------------------------------------------------
(* Properties *)

\* the text stage succeeded, audio was requested and the audio call failed
AudioFailed ==
    /\ pc = "done"
    /\ textOutcome.state = "ok"
    /\ FlagSet(body.generateAudio)
    /\ audioOutcome.state = "thrown"

\* C1: when the text service's generateText rejects with a value e,
\* generateTextWithAudio rejects with that same value e, the audio service
\* and the audio API are never called, and no CombinedResponse is produced.
C1_TextFailurePropagates ==
    textOutcome.state = "thrown" =>
        /\ outcome.state = "thrown"
        /\ outcome.value = textOutcome.value
        /\ audioCalls = <<>>
        /\ elevenSent = <<>>
        /\ audioOutcome = NotCalled

\* a text failure with a value that is not an Error, on a request that asks for audio
C1_Witness ==
    /\ pc = "done"
    /\ textOutcome.state = "thrown"
    /\ ~IsError(textOutcome.value)
    /\ FlagSet(body.generateAudio)
    /\ outcome.state = "thrown"

\* C2: with the default audio path (AudioGenerationService over
\* ElevenLabsClientWrapper), after a successful text call with generateAudio
\* true and a failing audio call, generateTextWithAudio has a result that
\* contains the text response, no audio and a non-empty audioError.
C2_AudioFailureResult ==
    (mode = "http" /\ AudioFailed) =>
        /\ outcome.state = "ok"
        /\ outcome.value.text = textOutcome.value
        /\ outcome.value.audio = Undefined
        /\ Truthy(outcome.value.audioError)

\* C3: after a successful text call with generateAudio false or absent, the
\* audio service and the audio API are never called and the result contains
\* the text and none of audio, audioError, audioErrorDetails.
C3_NoAudioWhenNotRequested ==
    (textOutcome.state = "ok" /\ ~FlagSet(body.generateAudio)) =>
        /\ audioCalls = <<>>
        /\ elevenSent = <<>>
        /\ audioOutcome = NotCalled
        /\ outcome.state = "ok"
        /\ outcome.value.text = textOutcome.value
        /\ outcome.value.audio = Undefined
        /\ outcome.value.audioError = Absent
        /\ outcome.value.audioErrorDetails = Undefined

\* a text-only result for a request that carries no generateAudio at all
C3_Witness ==
    /\ pc = "done"
    /\ mode = "http"
    /\ textOutcome.state = "ok"
    /\ body.generateAudio = Absent
    /\ response.status = 200

\* C4: once the text stage has succeeded, generateTextWithAudio never
\* rejects: whatever the audio service throws, the handling of the audio
\* failure completes and the call resolves with a CombinedResponse (stated
\* for the calls that POST makes, with the default services).
C4_AudioFailureNeverRejects ==
    (mode = "http" /\ pc = "done" /\ textOutcome.state = "ok") => outcome.state = "ok"

\* C5: every CombinedResponse that generateTextWithAudio returns contains the
\* text response, and never both audio and audioError.
C5_AtMostOneOfAudioAndError ==
    outcome.state = "ok" =>
        /\ textOutcome.state = "ok"
        /\ outcome.value.text = textOutcome.value
        /\ ~(outcome.value.audio # Undefined /\ outcome.value.audioError # Absent)

\* a returned response that carries an audio error
C5_Witness ==
    /\ outcome.state = "ok"
    /\ audioOutcome.state = "thrown"
    /\ outcome.value.audioError # Absent
    /\ outcome.value.audio = Undefined

\* C6: whenever the audio stage runs, the text passed to the audio service
\* is the text stage's output text, whatever audioSettings holds (stated for
\* the calls that POST makes).
C6_AudioTextIsTextOutput ==
    mode = "http" =>
    \A i \in 1..Len(audioCalls) : audioCalls[i].text = textOutcome.value.text

C8_PostStatus ==
    (mode = "http" /\ pc = "done" /\ body.kind = "object" /\ Truthy(body.prompt)) =>
        /\ textOutcome.state = "ok" =>
              /\ response.status = 200
              /\ outcome.state = "ok"
              /\ response.body = outcome.value
        /\ (textOutcome.state = "thrown" /\ IsApiError(textOutcome.value)) =>
              /\ response.status = textOutcome.value.statusCode
              /\ response.body.code = textOutcome.value.code

\* C9: every response of POST whose status is not 200 has a body that
\* carries code, message and statusCode, and that statusCode is the HTTP
\* status of the response.
C9_ErrorBodyShape ==
    (response.kind = "response" /\ response.status # 200) =>
        /\ {"code", "message", "statusCode"} \subseteq DOMAIN response.body
        /\ response.body.code # Absent
        /\ response.body.message # Absent
        /\ response.body.statusCode = response.status

\* an error answer whose status comes from the text API
C9_Witness ==
    /\ response.kind = "response"
    /\ response.status = 429
    /\ response.body.code = "GEMINI_RATE_LIMIT"

\* C10: handleApiError maps an ApiError to its statusCode and its
\* {code, message, statusCode, details}, and any other value to status 500
\* with code INTERNAL_ERROR, statusCode 500 and the message of the value if
\* it is an Error, "Unknown error" if it is not.
C10_HandleApiErrorMapping ==
    (mode = "normalize" /\ pc = "done") =>
        IF errIn.kind = "ApiError"
        THEN /\ errOut.status = errIn.statusCode
             /\ DOMAIN errOut.body = {"code", "message", "statusCode", "details"}
             /\ errOut.body.code = errIn.code
             /\ errOut.body.message = errIn.message
             /\ errOut.body.statusCode = errIn.statusCode
             /\ errOut.body.details = errIn.details
        ELSE /\ errOut.status = 500
             /\ DOMAIN errOut.body = {"code", "message", "statusCode"}
             /\ errOut.body.code = "INTERNAL_ERROR"
             /\ errOut.body.statusCode = 500
             /\ errOut.body.message = IF errIn.kind = "Error" THEN errIn.message
                                      ELSE "Unknown error"

\* handleApiError applied to a value that is not an Error
C10_Witness ==
    /\ mode = "normalize"
    /\ pc = "done"
    /\ errIn.kind = "string"
    /\ errOut.body.message = "Unknown error"

\* the text API answered the fetch with an HTTP response
TextHttpReply == mode = "http" /\ textApiReply # Undefined /\ textApiReply.kind = "http"

\* C11: for every non-2xx HTTP response of the text API whose body is not the
\* JSON value null (an HTML error page included), generateText rejects with an
\* ApiError whose statusCode is the HTTP status and whose code is
\* GEMINI_AUTH_ERROR for 401 or 403, GEMINI_RATE_LIMIT for 429 and
\* GEMINI_API_ERROR for any other status.
C11_NonOkStatusMapping ==
    (TextHttpReply /\ ~ResponseOk(textApiReply.status) /\ textApiReply.data.kind # "null")
    => /\ textOutcome.state = "thrown"
       /\ IsApiError(textOutcome.value)
       /\ textOutcome.value.statusCode = textApiReply.status
       /\ textOutcome.value.code =
              IF textApiReply.status \in {401, 403} THEN "GEMINI_AUTH_ERROR"
              ELSE IF textApiReply.status = 429 THEN "GEMINI_RATE_LIMIT"
              ELSE "GEMINI_API_ERROR"

\* the text API answered 2xx with a JSON object whose text is absent or empty
NoTextInReply ==
    /\ TextHttpReply
    /\ ResponseOk(textApiReply.status)
    /\ textApiReply.data.kind = "object"
    /\ textApiReply.data.text \in {Absent, ""}

AudioApiFailed ==
    mode = "http" /\ audioApiReply # Undefined /\ audioApiReply.error # Undefined

\* C13: every failure inside generateAudio rejects with an ApiError whose code
\* follows the original error's status (401 or 403: ELEVENLABS_AUTH_ERROR, 429:
\* ELEVENLABS_RATE_LIMIT, otherwise ELEVENLABS_API_ERROR), whose statusCode is
\* that status (500 when there is none) and whose details is the original error.
C13_AudioFailureIsApiError ==
    AudioApiFailed
    => LET original == audioApiReply.error
           status   == StatusOf(original)
       IN  /\ audioOutcome.state = "thrown"
           /\ IsApiError(audioOutcome.value)
           /\ audioOutcome.value.code =
                  IF status \in {401, 403} THEN "ELEVENLABS_AUTH_ERROR"
                  ELSE IF status = 429 THEN "ELEVENLABS_RATE_LIMIT"
                  ELSE "ELEVENLABS_API_ERROR"
           /\ audioOutcome.value.statusCode = (IF status = NoStatus THEN 500 ELSE status)
           /\ audioOutcome.value.details = original

\* the audio API streamed its chunks to the end
AudioStreamed ==
    mode = "http" /\ audioApiReply # Undefined /\ audioApiReply.kind = "stream"
    /\ audioApiReply.error = Undefined

\* the total byte length of the chunks
RECURSIVE TotalLength(_)
TotalLength(chunks) ==
    IF chunks = <<>> THEN 0 ELSE Len(Head(chunks)) + TotalLength(Tail(chunks))

\* the j-th byte the vendor delivered, counting across the chunks in arrival order
RECURSIVE ByteAt(_, _)
ByteAt(chunks, j) ==
    IF j <= Len(Head(chunks)) THEN Head(chunks)[j]
    ELSE ByteAt(Tail(chunks), j - Len(Head(chunks)))

\* C14: a successful generateAudio returns as audioData the base64 text of the
\* chunks in arrival order, as size the total byte length of the chunks (not
\* the length of the base64 text), and as format the output format that was
\* sent to the vendor in that call.
C14_AudioDataAndSize ==
    AudioStreamed
    => LET chunks == audioApiReply.chunks
           n      == TotalLength(chunks)
           audio  == audioOutcome.value
       IN  /\ audioOutcome.state = "ok"
           /\ audio.size = n
           /\ audio.audioData = Base64Encode([j \in 1..n |-> ByteAt(chunks, j)])
           /\ Len(audio.audioData) = 4 * ((n + 2) \div 3)
           /\ audio.format = elevenSent[Len(elevenSent)].outputFormat
           /\ audio.voiceId = elevenSent[Len(elevenSent)].voiceId

C14_Witness ==
    /\ AudioStreamed
    /\ audioApiReply.chunks = <<<<255>>, <<73, 68>>>>
    /\ audioOutcome.state = "ok"
    /\ audioOutcome.value.size = 3

\* C15: the audio data of a 200 response, decoded as the page decodes it (atob,
\* then charCodeAt into a byte array), is byte for byte the buffer the audio
\* client encoded, and its length is the size the response reports.
C15_Base64RoundTrip ==
    (AudioStreamed /\ pc = "done")
    => /\ response.status = 200
       /\ LET audio   == response.body.audio
              decoded == PageDecodeAudio(audio.audioData)
          IN  /\ decoded.state = "ok"
              /\ decoded.value = BufferConcat(audioApiReply.chunks)
              /\ Len(decoded.value) = audio.size

C15_Witness ==
    /\ AudioStreamed
    /\ pc = "done"
    /\ response.body.audio.audioData = <<"/", "0", "l", "E">>
    /\ PageDecodeAudio(response.body.audio.audioData) = Ok(<<255, 73, 68>>)

HasNameToken(s) ==
    \E i \in 1..Len(s), j \in 1..Len(s) :
        /\ j > i + 1
        /\ s[i] = "{"
        /\ s[j] = "}"
        /\ \A k \in (i + 1)..(j - 1) : s[k] \in WordChars

\* the builder was made from a key of the template table
FromRecognizedId == mode = "prompt" /\ pbArg.kind = "id" /\ pbArg.id \in DOMAIN templates

\* C16: for a recognized template id, whatever the variables and their values,
\* a build() that returns has returned a string with no {name}-shaped token
\* left in it.
C16_SuccessfulBuildHasNoToken ==
    (FromRecognizedId /\ buildOutcome.state = "ok")
    => ~HasNameToken(buildOutcome.value)

C16_Witness ==
    /\ FromRecognizedId
    /\ pbArg.id = "EXPLAIN"
    /\ Len(builder.value.variables) = 2
    /\ buildOutcome.state = "ok"
    /\ OccursAt(buildOutcome.value, <<"A", "I">>, 9)

\* a value without braces and without the $ of a replacement pattern
PlainValue(v) == \A i \in 1..Len(v) : v[i] \notin {"{", "}", "$"}

RECURSIVE ReplaceAll(_, _, _)
\* s with every occurrence of pat replaced by v
ReplaceAll(s, pat, v) ==
    LET at == {k \in 1..Len(s) : OccursAt(s, pat, k)}
    IN  IF at = {} THEN s
        ELSE LET k == CHOOSE x \in at : \A y \in at : x <= y
             IN  SubSeq(s, 1, k - 1) \o v
                 \o ReplaceAll(SubSeq(s, k + Len(pat), Len(s)), pat, v)

RECURSIVE ReplaceAllEach(_, _)
\* every occurrence of every set variable replaced, in the order they were set
ReplaceAllEach(s, variables) ==
    IF variables = <<>> THEN s
    ELSE ReplaceAllEach(ReplaceAll(s, PlaceholderOf(Head(variables).name),
                                   Head(variables).value),
                        Tail(variables))

\* C17: build() replaces every occurrence of {name} by the value of each set
\* variable: for a template text and variables whose values are plain text,
\* build() returns the text with all occurrences replaced, and throws only when
\* a placeholder of a variable that was not set is left.
C17_EveryOccurrenceReplaced ==
    (/\ mode = "prompt"
     /\ pc = "done"
     /\ builder.state = "ok"
     /\ builder.value.template.kind = "template"
     /\ \A i \in 1..Len(builder.value.variables) :
            PlainValue(builder.value.variables[i].value))
    => LET expected == ReplaceAllEach(builder.value.template.template,
                                      builder.value.variables)
       IN  IF HasNameToken(expected) THEN buildOutcome.state = "thrown"
           ELSE buildOutcome.state = "ok" /\ buildOutcome.value = expected

\* a template id that is neither a key of the table nor the id of a template in it
UnknownId(id) ==
    /\ id \notin DOMAIN templates
    /\ \A key \in DOMAIN templates : templates[key].id # id

\* C18: for an unknown template id the constructor throws "Template <id> not
\* found"; no builder exists and build is never called.
C18_UnknownIdThrows ==
    (mode = "prompt" /\ pbArg.kind = "id" /\ UnknownId(pbArg.id))
    => /\ builder = Thrown(JsError("Template " \o pbArg.id \o " not found"))
       /\ pc = "done"
       /\ buildOutcome = NotCalled

\* C19: for every template t of the table, getPromptTemplate(t.id) returns t
\* and new PromptBuilder(t.id) gives a builder on t; the table is never
\* modified.
C19_LookupByIdentifier ==
    /\ templates = PROMPT_TEMPLATES
    /\ (mode = "prompt" /\ pbArg.kind = "id")
       => \A key \in DOMAIN templates :
              templates[key].id = pbArg.id
              => /\ getPromptTemplate(templates, pbArg.id) = templates[key]
                 /\ builder.state = "ok"
                 /\ builder.value.template = templates[key]

\* C21: with the audio key missing and the text key present, a request that
\* has a prompt still reaches the text service, and when the text stage
\* succeeds POST answers 200 with the text (and an audio error message when
\* audio was requested).
C21_MissingAudioKeyKeepsText ==
    (/\ mode = "http"
     /\ pc = "done"
     /\ env.gemini
     /\ ~env.eleven
     /\ body.kind = "object"
     /\ Truthy(body.prompt))
    => /\ Len(textCalls) = 1
       /\ textOutcome.state = "ok"
          => /\ response.status = 200
             /\ response.body.text = textOutcome.value
             /\ FlagSet(body.generateAudio) => Truthy(response.body.audioError)

\* generateTextWithAudio was called
CombinedCalled == mode \in {"http", "direct"} /\ textCalls # <<>>

\* C22: within one execution of generateTextWithAudio the text service is
\* called exactly once and the audio service at most once, the audio call is
\* made only after the text call succeeded, the two calls are never pending
\* together, and after a failed call nothing is called again.
C22_SequentialUnrepeated ==
    /\ mode \in {"http", "direct"}
       => /\ Len(textCalls) <= 1
          /\ Len(audioCalls) <= 1
          /\ Len(geminiSent) <= 1
          /\ Len(elevenSent) <= 1
          /\ audioCalls # <<>> => textOutcome.state = "ok"
          /\ audioOutcome # NotCalled => (audioCalls # <<>> /\ textOutcome.state = "ok")
          /\ ~(textOutcome = Pending /\ audioOutcome = Pending)
          /\ outcome # NotCalled => Len(textCalls) = 1
    /\ CombinedCalled
       => /\ textOutcome.state = "thrown"
             => (pc = "done" /\ audioCalls = <<>> /\ audioOutcome = NotCalled)
          /\ audioOutcome.state = "thrown" => pc = "done"

C22_Witness ==
    /\ CombinedCalled
    /\ pc = "done"
    /\ Len(textCalls) = 1
    /\ Len(audioCalls) = 1
    /\ audioOutcome.state = "thrown"
    /\ outcome.state = "ok"

GeminiCodes ==
    {"GEMINI_AUTH_ERROR", "GEMINI_RATE_LIMIT", "GEMINI_API_ERROR", "GEMINI_NO_RESPONSE",
     "GEMINI_REQUEST_FAILED"}

\* the text API answered and generateText rejected
TextRejected ==
    mode = "http" /\ textApiReply # Undefined /\ textOutcome.state = "thrown"

\* C23: every rejection of generateText is an ApiError with one of the five
\* GEMINI_ codes and a numeric statusCode; a network failure or an unparsable
\* body gives GEMINI_REQUEST_FAILED with statusCode 500.
C23_RejectionsAreApiErrors ==
    TextRejected
    => /\ IsApiError(textOutcome.value)
       /\ textOutcome.value.code \in GeminiCodes
       /\ textOutcome.value.statusCode \in 100..599
       /\ (textApiReply.kind = "network" \/ textApiReply.data.kind = "unparsable")
          => /\ textOutcome.value.code = "GEMINI_REQUEST_FAILED"
             /\ textOutcome.value.statusCode = 500

C23_Witness ==
    /\ TextRejected
    /\ textApiReply.kind = "network"
    /\ textOutcome.value.code = "GEMINI_REQUEST_FAILED"
    /\ response.status = 500

\* the result of generateTextWithAudio carries audioErrorDetails
DetailsPresent ==
    outcome.state = "ok" /\ outcome.value.audioErrorDetails # Undefined

\* C24: when the audio call failed, audioErrorDetails is present if and only
\* if the thrown value is an object with a code field, and it is then the
\* JSON text of that value; it is never present without audioError nor
\* together with audio.
C24_DetailsIffCode ==
    /\ (mode = "http" /\ AudioFailed)
       => /\ DetailsPresent <=> HasCode(audioOutcome.value)
          /\ DetailsPresent
             => outcome.value.audioErrorDetails = JsonStringify(audioOutcome.value).value
    /\ (mode = "http" /\ DetailsPresent)
       => /\ outcome.value.audioError # Absent
          /\ outcome.value.audio = Undefined

\* a value the request supplies: present and not empty
Supplied(v) == v \notin {Absent, ""}

\* C27: the voice id, model id, output format and voice settings sent to the
\* vendor are the request's when it supplies a (non-empty) value and the fixed
\* defaults otherwise, the text is the request's, and the voiceId and format
\* of the returned response are those that were sent.
C27_DefaultsAndEcho ==
    (mode = "http" /\ elevenSent # <<>>)
    => LET request == audioCalls[Len(audioCalls)]
           sent    == elevenSent[Len(elevenSent)]
       IN  /\ sent.text = request.text
           /\ sent.voiceId = (IF Supplied(request.voiceId) THEN request.voiceId
                              ELSE "JBFqnCBsd6RMkjVDRZzb")
           /\ sent.modelId = (IF Supplied(request.modelId) THEN request.modelId
                              ELSE "eleven_v3")
           /\ sent.outputFormat = (IF Supplied(request.outputFormat)
                                   THEN request.outputFormat ELSE "mp3_44100_128")
           /\ sent.voiceSettings = (IF request.voiceSettings # Undefined
                                    THEN request.voiceSettings
                                    ELSE [kind |-> "object", stability |-> "0.5",
                                          similarity_boost |-> "0.8",
                                          use_speaker_boost |-> TRUE])
           /\ audioOutcome.state = "ok"
              => /\ audioOutcome.value.voiceId = sent.voiceId
                 /\ audioOutcome.value.format = sent.outputFormat

C27_Witness ==
    /\ mode = "http"
    /\ elevenSent # <<>>
    /\ audioCalls[1].voiceSettings = CustomVoiceSettings
    /\ audioCalls[1].modelId = Absent
    /\ elevenSent[1].voiceSettings = CustomVoiceSettings
    /\ elevenSent[1].modelId = "eleven_v3"
    /\ audioOutcome.state = "ok"
    /\ audioOutcome.value.voiceId = "EXAVITQu4vr4xnSDxMaL"

\* build() was called on a builder
Built == mode = "prompt" /\ pc = "done" /\ builder.state = "ok"

\* the string build() holds after its substitution pass, if it holds one
AfterPass ==
    IF builder.value.template.kind = "template"
    THEN [kind |-> "string",
          chars |-> ReplaceEach(builder.value.template.template, builder.value.variables)]
    ELSE Undefined

\* C25: build() fails if and only if the string it holds after the
\* substitution pass contains a {name}-shaped token, and otherwise returns
\* that string; a template without placeholders builds to its text unchanged
\* when no variable is set.
C25_BuildFailsIffTokenLeft ==
    Built
    => /\ buildOutcome.state = "thrown"
          <=> (AfterPass # Undefined /\ HasNameToken(AfterPass.chars))
       /\ buildOutcome.state = "ok" => buildOutcome.value = AfterPass.chars
       /\ (/\ builder.value.variables = <<>>
           /\ builder.value.template.kind = "template"
           /\ ~HasNameToken(builder.value.template.template))
          => (/\ buildOutcome.state = "ok"
              /\ buildOutcome.value = builder.value.template.template)

\* the builder was made by fromString
FromText == mode = "prompt" /\ pbArg.kind = "text"

\* the names of the variables set on the builder, as characters
SetNames == {NameChars[builder.value.variables[i].name] :
                i \in 1..Len(builder.value.variables)}

\* the text holds a {name}-shaped token whose name is not in names
HasTokenOutside(s, names) ==
    \E i \in 1..Len(s), j \in 1..Len(s) :
        /\ j > i + 1
        /\ s[i] = "{"
        /\ s[j] = "}"
        /\ \A k \in (i + 1)..(j - 1) : s[k] \in WordChars
        /\ SubSeq(s, i + 1, j - 1) \notin names

\* C26: fromString(text) never throws and never reads the template table: its
\* builder holds a template of its own with that text and no declared
\* variables, and has no variable set when it is returned; its build()
\* returns the text unchanged when the text has no {name} token and fails when
\* the text has a {name} token whose variable was not set.
C26_FromString ==
    /\ [](FromText
          => /\ builder.state = "ok"
             /\ builder.value.template =
                    [kind |-> "template", id |-> "custom", name |-> "Custom",
                     template |-> pbArg.text, variables |-> Undefined]
             /\ \A key \in DOMAIN templates : templates[key] # builder.value.template
             /\ templates = PROMPT_TEMPLATES
             /\ (pc = "done" /\ ~HasNameToken(pbArg.text))
                => (buildOutcome.state = "ok" /\ buildOutcome.value = pbArg.text)
             /\ (pc = "done" /\ HasTokenOutside(pbArg.text, SetNames))
                => buildOutcome.state = "thrown")
    /\ [][(pbArg.kind # "text" /\ pbArg'.kind = "text")
          => builder'.value.variables = <<>>]_vars

C26_Witness ==
    /\ FromText
    /\ pc = "done"
    /\ pbArg.text = <<"{", "x", "}", " ", "a", "n", "d", " ", "{", "t", "o", "p", "i", "c", "}">>
    /\ SetNames = {<<"x">>}
    /\ buildOutcome.state = "thrown"

\* POST has answered the request
Responded == mode = "http" /\ pc = "done" /\ response.kind = "response"

\* C29: if every remote call is answered in the end, every request to POST
\* gets a response in the end; the handler never finishes without a response,
\* and a response once given is never replaced by another.
C29_ExactlyOneResponse ==
    /\ (mode = "http") ~> Responded
    /\ []((mode = "http" /\ pc = "done") => response.kind = "response")
    /\ []((mode = "http" /\ response.kind = "response") => pc = "done")
    /\ [][response.kind = "response" => response' = response]_vars

C29_Witness ==
    /\ Responded
    /\ audioApiReply # Undefined
    /\ audioApiReply.kind = "stream"
    /\ audioApiReply.error # Undefined
    /\ response.status = 200
    /\ response.body.audioError = "terminated"

\* the response of a request handled alone, given the answers of the two APIs
SoloResponse(b, e, textReply, audioReply) ==
    LET entry == PostEntry(b, e)
    IN  IF ~entry.call THEN entry.response
        ELSE LET t     == TextServiceGenerateText(TextRequest(b), textReply)
                 after == AfterText(b, t)
             IN  IF after.step = "settled" THEN PostSettle(after.settled)
                 ELSE PostSettle(AfterAudio(t.value,
                                            AudioServiceGenerateAudio(after.audioRequest,
                                                                      audioReply)))

\* C28: of two requests handled at the same time, interleaved at their
\* awaits, each gets the response it would get alone with the same answers of
\* the remote APIs; the audio of a request is made from the text of that
\* request and its response carries that text.
C28_RequestsDoNotInterfere ==
    mode = "pair"
    => \A i \in Requests :
          /\ reqs[i].pc = "done"
             => reqs[i].response =
                    SoloResponse(reqs[i].body, env, reqs[i].textReply, reqs[i].audioReply)
          /\ reqs[i].audioRequest # Undefined
             => /\ reqs[i].textOutcome.state = "ok"
                /\ reqs[i].audioRequest.text = reqs[i].textOutcome.value.text
          /\ (reqs[i].pc = "done" /\ reqs[i].response.status = 200)
             => reqs[i].response.body.text.text = reqs[i].textReply.data.text

C28_Witness ==
    /\ mode = "pair"
    /\ \A i \in Requests : reqs[i].pc = "done" /\ reqs[i].response.status = 200
    /\ reqs["A"].response.body.text.text = "Take a short walk."
    /\ reqs["B"].response.body.text.text = "Send flowers."
    /\ reqs["A"].response.body.audio # Undefined
    /\ reqs["B"].response.body.audio # Undefined
    /\ reqs["A"].response.body.audio.audioData # reqs["B"].response.body.audio.audioData

InFlight == mode = "page" /\ page.handlers # <<>>

\* C30: in the page, loading is true exactly while a call of
\* handleButtonClick has a request in flight; at most one is in flight; while
\* one is in flight the previous response, error, audio URL and audio error
\* are cleared; and every call that ends, on any path, leaves loading and
\* audioLoading false.
C30_LoadingWhileInFlight ==
    /\ [](mode = "page"
          => /\ page.loading <=> InFlight
             /\ Len(page.handlers) <= 1
             /\ ~InFlight => ~page.audioLoading
             /\ \A i \in 1..Len(page.handlers) :
                    page.handlers[i].stage = "fetch"
                    => /\ page.response = Null
                       /\ page.error = ""
                       /\ page.audioUrl = Null
                       /\ page.audioError = Null)
    /\ [][(mode = "page" /\ Len(page'.handlers) < Len(page.handlers))
          => (~page'.loading /\ ~page'.audioLoading)]_vars
    /\ [][(mode = "page" /\ Len(page'.handlers) > Len(page.handlers))
          => /\ page'.response = Null /\ page'.error = ""
             /\ page'.audioUrl = Null /\ page'.audioError = Null]_vars

C30_Witness ==
    /\ mode = "page"
    /\ ~InFlight
    /\ ~page.loading
    /\ ~page.audioLoading
    /\ page.response # Null
    /\ page.audioError = StringValue("Failed to process audio data")


====
